---- MODULE Spec2Model ----
(***************************************************************************)
(* Contapersone: two build-free React pages.                               *)
(*   page 1  "Contapersone - Sito Web/script.js":                          *)
(*           Header + Counter + Lista + Footer                             *)
(*   page 2  the Home page script: a single heading                        *)
(* The element tree returned by the component functions is modelled as a   *)
(* tree of records; an onClick property holds the closure of the handler,  *)
(* i.e. the values of count / items the handler captured when the          *)
(* component function ran.                                                 *)
(***************************************************************************)
EXTENDS Integers, Sequences, FiniteSets, TLC

\* Bounds of the exploration (the program itself has none).
MaxInc == 11
MaxApp == 9
MaxRerenders == 2

VARIABLES
    page,       \* which of the two scripts the document loads (1 or 2)
    hasRoot,    \* document.getElementById("root") is an element
    pc,         \* "start" | "mounted" | "failed"
    count,      \* state cell of Counter  (React.useState(0))
    items,      \* state cell of Lista    (React.useState(["ALALALALA"]))
    tree,       \* element tree committed by the last render
    nInc,       \* history: clicks on "Aumenta" so far
    nApp,       \* history: clicks on "Aggiungi" so far
    rerenders   \* history: renders performed with no trigger in between

vars == <<page, hasRoot, pc, count, items, tree, nInc, nApp, rerenders>>

----------------------------------------------------------------------------
\* Element trees

NoProps == [p \in {} |-> 0]

\* React.createElement(tag, props, ...children)
e(tag, props, children) == [tag |-> tag, props |-> props, children |-> children]

\* a string child of an element
Text(s) == [tag |-> "#text", props |-> NoProps, children |-> <<>>, text |-> s]

\* nothing has been committed to the document
NoTree == [tag |-> "#none", props |-> NoProps, children |-> <<>>]

\* Number::toString(10), the conversion done by  "..." + number
DigitChars == <<"0", "1", "2", "3", "4", "5", "6", "7", "8", "9">>

RECURSIVE NumberToString(_)
NumberToString(n) ==
    IF n < 10 THEN DigitChars[n + 1]
    ELSE NumberToString(n \div 10) \o DigitChars[(n % 10) + 1]

----------------------------------------------------------------------------
\* Components of page 1

Header ==
    e("header", NoProps,
      << e("h1", NoProps, << Text("Il mio sito con React") >>),
         e("p", NoProps, << Text("Senza JSX, senza build") >>) >>)

InitialCount == 0

\* variant: a handler memoised once, closing over the initial count for ever
IncrementClosureStale(c) == [fn |-> "setCount", count |-> InitialCount]

\* () => setCount(count + 1), with the count it closes over
IncrementClosure(c) == [fn |-> "setCount", count |-> c]

\* variant: the handler adds two
IncrementTwice(closure) == closure.count + 2

\* the value the closure passes to setCount when it is called
Increment(closure) == closure.count + 1

Counter(c) ==
    e("div", NoProps,
      << e("h2", NoProps, << Text("Contatore") >>),
         e("p", NoProps, << Text("Valore: " \o NumberToString(c)) >>),
         e("button", [onClick |-> IncrementClosure(c)], << Text("Aumenta") >>) >>)

InitialItems == << "ALALALALA" >>

\* aggiungiElemento, with the items it closes over
AppendClosure(it) == [fn |-> "aggiungiElemento", items |-> it]

\* variant: the label uses items.length instead of items.length + 1
aggiungiElementoOffByOne(closure) ==
    closure.items \o << "Elemento " \o NumberToString(Len(closure.items)) >>

\* variant: the new entry is put in front, [new, ...items]
aggiungiElementoPrepend(closure) ==
    << "Elemento " \o NumberToString(Len(closure.items) + 1) >> \o closure.items

\* variant: the label is numbered from a counter shared with Counter
aggiungiElementoSharedCounter(closure) ==
    closure.items \o
        << "Elemento " \o NumberToString(Len(closure.items) + 1 + count) >>

\* the value aggiungiElemento passes to setItems
aggiungiElemento(closure) ==
    closure.items \o << "Elemento " \o NumberToString(Len(closure.items) + 1) >>

\* variant: every item keyed by items.length
ListItemsKeyedByLength(it) ==
    [i \in 1..Len(it) |-> e("li", [key |-> Len(it)], << Text(it[i]) >>)]

\* items.map((item, index) => e("li", { key: index }, item)); index is 0-based
ListItems(it) ==
    [i \in 1..Len(it) |-> e("li", [key |-> i - 1], << Text(it[i]) >>)]

Lista(it) ==
    e("div", NoProps,
      << e("h2", NoProps, << Text("Lista dinamica") >>),
         e("ul", NoProps, ListItems(it)),
         e("button", [onClick |-> AppendClosure(it)], << Text("Aggiungi") >>) >>)

Footer ==
    e("footer", NoProps,
      << e("p", NoProps, << Text("(c) 2026 - React CDN") >>) >>)

App(c, it) ==
    e("div", NoProps,
      << Header,
         e("main", NoProps, << Counter(c), e("hr", NoProps, <<>>), Lista(it) >>),
         Footer >>)

----------------------------------------------------------------------------
\* Components of page 2

\* variant: the Home page also carries the heading of page 1
HomeWithSiteHeader ==
    e("div", [className |-> "home"],
      << e("header", NoProps,
           << e("h1", NoProps, << Text("Il mio sito con React") >>),
              e("h1", NoProps, << Text("Contapersone") >>) >>) >>)

Home ==
    e("div", [className |-> "home"],
      << e("header", NoProps,
           << e("h1", NoProps, << Text("Contapersone") >>) >>) >>)

HomeApp == Home

----------------------------------------------------------------------------
\* Reading the committed tree

CounterView(t) == t.children[2].children[1]
ListaView(t)   == t.children[2].children[3]

\* the closures the two buttons currently carry
IncrementButton(t) == CounterView(t).children[3]
AppendButton(t)    == ListaView(t).children[3]

\* the text shown in the counter's paragraph
DisplayedText(t) == CounterView(t).children[2].children[1].text

\* the <li> elements, in document order
RenderedLis(t) == ListaView(t).children[2].children

RenderedItems(t) == [i \in 1..Len(RenderedLis(t)) |-> RenderedLis(t)[i].children[1].text]
RenderedKeys(t)  == [i \in 1..Len(RenderedLis(t)) |-> RenderedLis(t)[i].props.key]

RECURSIVE Flatten(_), FlattenAll(_)
Flatten(n) == << n >> \o FlattenAll(n.children)
FlattenAll(ns) ==
    IF ns = <<>> THEN <<>> ELSE Flatten(Head(ns)) \o FlattenAll(Tail(ns))

HasOnClick(n) == "onClick" \in DOMAIN n.props

HeadingTags == {"h1", "h2", "h3", "h4", "h5", "h6"}
IsHeading(n) == n.tag \in HeadingTags

Headings(t) == SelectSeq(Flatten(t), IsHeading)
Interactive(t) == SelectSeq(Flatten(t), HasOnClick)

----------------------------------------------------------------------------
\* The program

\* what root.render(e(App)) and every later render commit
Render(pg, c, it) == IF pg = 1 THEN App(c, it) ELSE HomeApp

Init ==
    /\ page \in {1, 2}
    /\ hasRoot \in BOOLEAN
    /\ pc = "start"
    /\ count = InitialCount
    /\ items = InitialItems
    /\ tree = NoTree
    /\ nInc = 0
    /\ nApp = 0
    /\ rerenders = 0

\* ReactDOM.createRoot(document.getElementById("root")); root.render(e(App))
Mount ==
    /\ pc = "start"
    /\ hasRoot
    /\ pc' = "mounted"
    /\ tree' = Render(page, count, items)
    /\ UNCHANGED <<page, hasRoot, count, items, nInc, nApp, rerenders>>

\* variant: a missing root element is ignored and the tree is rendered anyway
MountIgnoresMissingRoot ==
    /\ pc = "start"
    /\ ~hasRoot
    /\ pc' = "mounted"
    /\ tree' = Render(page, count, items)
    /\ UNCHANGED <<page, hasRoot, count, items, nInc, nApp, rerenders>>

\* createRoot(null) throws; the script stops before root.render
MountFails ==
    /\ pc = "start"
    /\ ~hasRoot
    /\ pc' = "failed"
    /\ UNCHANGED <<page, hasRoot, count, items, tree, nInc, nApp, rerenders>>

\* variant: the re-render after an increment remounts Lista, losing its state
ClickIncrementRemountsLista ==
    /\ pc = "mounted"
    /\ Len(Interactive(tree)) > 0
    /\ nInc < MaxInc
    /\ count' = Increment(IncrementButton(tree).props.onClick)
    /\ items' = InitialItems
    /\ tree' = Render(page, count', items')
    /\ nInc' = nInc + 1
    /\ rerenders' = 0
    /\ UNCHANGED <<page, hasRoot, pc, nApp>>

\* a click on "Aumenta": the committed closure runs, React flushes the
\* update and re-renders before the event dispatch returns
ClickIncrement ==
    /\ pc = "mounted"
    /\ Len(Interactive(tree)) > 0
    /\ nInc < MaxInc
    /\ count' = Increment(IncrementButton(tree).props.onClick)
    /\ tree' = Render(page, count', items)
    /\ nInc' = nInc + 1
    /\ rerenders' = 0
    /\ UNCHANGED <<page, hasRoot, pc, items, nApp>>

\* a click on "Aggiungi"
ClickAppend ==
    /\ pc = "mounted"
    /\ Len(Interactive(tree)) > 0
    /\ nApp < MaxApp
    /\ items' = aggiungiElemento(AppendButton(tree).props.onClick)
    /\ tree' = Render(page, count, items')
    /\ nApp' = nApp + 1
    /\ rerenders' = 0
    /\ UNCHANGED <<page, hasRoot, pc, count, nInc>>

\* variant: a render creates the root anew, so the state cells start over
RerenderRemounts ==
    /\ pc = "mounted"
    /\ rerenders < MaxRerenders
    /\ count' = InitialCount
    /\ items' = InitialItems
    /\ tree' = Render(page, count', items')
    /\ rerenders' = rerenders + 1
    /\ UNCHANGED <<page, hasRoot, pc, nInc, nApp>>

\* the component functions are invoked again with no trigger
Rerender ==
    /\ pc = "mounted"
    /\ rerenders < MaxRerenders
    /\ tree' = Render(page, count, items)
    /\ rerenders' = rerenders + 1
    /\ UNCHANGED <<page, hasRoot, pc, count, items, nInc, nApp>>

Next ==
    \/ Mount
    \/ MountFails
    \/ ClickIncrement
    \/ ClickAppend
    \/ Rerender

Spec == Init /\ [][Next]_vars

----------------------------------------------------------------------------
\* Properties

OnPage1 == pc = "mounted" /\ page = 1
OnPage2 == pc = "mounted" /\ page = 2

\* the label the n-th entry of the list is meant to carry
ExpectedItem(k) == IF k = 1 THEN "ALALALALA" ELSE "Elemento " \o ToString(k)

\* C1: after n clicks on "Aumenta" from a fresh mount the counter shows
\* "Valore: " followed by n (decimal); no click is lost or counted twice.
C1_DisplayCountsClicks ==
    OnPage1 => DisplayedText(tree) = "Valore: " \o ToString(nInc)

C1_Witness ==
    OnPage1 /\ nInc = 11 /\ DisplayedText(tree) = "Valore: 11"

\* C2: after n clicks on "Aggiungi" from a fresh mount the rendered list has
\* n+1 entries, the seed first, and entry k+1 reads "Elemento " k+1.
C2_RenderedListAfterAppends ==
    OnPage1 =>
        /\ Len(RenderedItems(tree)) = nApp + 1
        /\ RenderedItems(tree)[1] = "ALALALALA"
        /\ \A k \in 1..nApp :
               RenderedItems(tree)[k + 1] = "Elemento " \o ToString(k + 1)

C2_Witness ==
    /\ OnPage1
    /\ nApp = 2
    /\ RenderedItems(tree) = << "ALALALALA", "Elemento 2", "Elemento 3" >>

\* C3: whenever a click handler can run, the value it captured at render
\* time (count, or items) is the current value of the state cell.
C3_NoStaleClosure ==
    OnPage1 =>
        /\ IncrementButton(tree).props.onClick.count = count
        /\ AppendButton(tree).props.onClick.items = items

C3_Witness ==
    /\ OnPage1
    /\ nInc >= 2
    /\ nApp >= 2
    /\ IncrementButton(tree).props.onClick.count = nInc
    /\ Len(AppendButton(tree).props.onClick.items) = nApp + 1

\* C4: without a "root" element nothing is ever rendered, no trigger is
\* ever enabled and the page never reaches a rendered state.
C4_MissingRootNeverRenders ==
    ~hasRoot =>
        /\ pc # "mounted"
        /\ tree = NoTree
        /\ ~ENABLED ClickIncrement
        /\ ~ENABLED ClickAppend
        /\ ~ENABLED Rerender

C4_Witness ==
    ~hasRoot /\ pc = "failed" /\ tree = NoTree

\* C5: the mounted Home page shows exactly one heading, "Contapersone",
\* has no interactive element and no enabled trigger, and neither its
\* output nor any state cell ever changes.
C5_HomeIsStatic ==
    /\ [](OnPage2 =>
            /\ Len(Headings(tree)) = 1
            /\ Headings(tree)[1].children = << Text("Contapersone") >>
            /\ Len(Interactive(tree)) = 0
            /\ ~ENABLED ClickIncrement
            /\ ~ENABLED ClickAppend)
    /\ [][OnPage2 => tree' = tree /\ count' = count /\ items' = items]_vars

C5_Witness ==
    OnPage2 /\ rerenders = 2 /\ Len(Headings(tree)) = 1

C7_AppendOnlyGrowsAtEnd ==
    [][/\ nApp' # nApp =>
              /\ Len(items') = Len(items) + 1
              /\ SubSeq(items', 1, Len(items)) = items
       /\ nApp' = nApp => items' = items]_vars

C7_Witness ==
    OnPage1 /\ nApp >= 3 /\ Len(items) = nApp + 1 /\ nInc >= 1

\* C8: an increment click changes count and not items; an append click
\* changes items and not count.
C8_CellsArePrivate ==
    [][/\ nInc' # nInc => count' # count /\ items' = items
       /\ nApp' # nApp => items' # items /\ count' = count]_vars

C8_Witness ==
    OnPage1 /\ nInc >= 1 /\ nApp >= 1 /\ count >= 1 /\ Len(items) >= 2

\* C9: the keys of the rendered items are exactly 0..Len(items)-1 in order
\* (hence pairwise distinct), and on every step each key that existed before
\* still exists and denotes the same entry text.
C9_IndexKeysStable ==
    /\ [](OnPage1 =>
            RenderedKeys(tree) = [i \in 1..Len(items) |-> i - 1])
    /\ [][OnPage1 =>
            \A i \in 1..Len(RenderedLis(tree)) :
                \E j \in 1..Len(RenderedLis(tree')) :
                    /\ RenderedLis(tree')[j].props.key = RenderedLis(tree)[i].props.key
                    /\ RenderedLis(tree')[j].children = RenderedLis(tree)[i].children]_vars

C9_Witness ==
    OnPage1 /\ nApp = 3 /\ RenderedKeys(tree) = << 0, 1, 2, 3 >>

\* C10: the state reached after a increment clicks and b append clicks, in
\* any order, is count = a and items = seed, "Elemento 2" .. "Elemento b+1".
C10_ClicksCommute ==
    OnPage1 =>
        /\ count = nInc
        /\ items = [k \in 1..(nApp + 1) |-> ExpectedItem(k)]

C10_Witness ==
    OnPage1 /\ nInc = 2 /\ nApp = 2 /\ count = 2 /\ Len(items) = 3

====
